---- MODULE Spec2Model ----
(***************************************************************************)
(* Model of models/loss_utils.py: the three loss entry points loss_nl,     *)
(* loss_mse and loss_xent and their shared helper _loss_helper, together   *)
(* with the graph collections of the TF 1.x tf.losses / tf.summary API     *)
(* they are written against:                                               *)
(*   - tf.losses.mean_squared_error and                                    *)
(*     tf.losses.sparse_softmax_cross_entropy reduce the per-element       *)
(*     losses with SUM_BY_NONZERO_WEIGHTS and ADD the resulting scalar to  *)
(*     the graph collection GraphKeys.LOSSES (loss_collection default);    *)
(*   - tf.losses.get_total_loss(add_regularization_losses=True) is         *)
(*     add_n(get_losses() + get_regularization_losses());                  *)
(*   - tf.losses.get_regularization_loss() is add_n of                     *)
(*     GraphKeys.REGULARIZATION_LOSSES, or the constant 0.0 when empty;    *)
(*   - tf.summary.scalar adds a record to GraphKeys.SUMMARIES.             *)
(*                                                                         *)
(* Scalars are exact fixed-point numbers: the real value x is the integer  *)
(* x * One.  One is a multiple of every batch length, so every mean of the *)
(* model is exact.                                                         *)
(***************************************************************************)
EXTENDS Integers, Sequences, FiniteSets

VARIABLES
    losses,      \* GraphKeys.LOSSES of the default graph
    reg_losses,  \* GraphKeys.REGULARIZATION_LOSSES
    summaries,   \* GraphKeys.SUMMARIES
    ret,         \* the last call: its arguments and what it returned
    pre,         \* the collections as the last call found them
    hist         \* the task losses returned so far, in call order

vars == <<losses, reg_losses, summaries, ret, pre, hist>>

----------------------------------------------------------------------------
(* Bounds *)

MaxBatch == 3

MaxCalls == 2

MaxReg == 1

----------------------------------------------------------------------------
(* Arithmetic *)

RECURSIVE Gcd(_, _)
Gcd(a, b) == IF b = 0 THEN a ELSE Gcd(b, a % b)

RECURSIVE LcmUpTo(_)
LcmUpTo(n) == IF n <= 1 THEN 1 ELSE (LcmUpTo(n - 1) * n) \div Gcd(LcmUpTo(n - 1), n)

\* the fixed-point representation of the float32 scalar 1.0
One == 16 * LcmUpTo(MaxBatch)

\* tf.add_n: the sum of a list of scalars
RECURSIVE add_n(_)
add_n(s) == IF s = <<>> THEN 0 ELSE Head(s) + add_n(Tail(s))

----------------------------------------------------------------------------
(* Inputs: a batch is an ordered collection of examples *)

\* the examples the input pipeline holds, in order; a batch is a run of
\* consecutive examples
MseData ==
    << [label |-> 1, pred |-> 1], [label |-> 2, pred |-> 2],
       [label |-> 3, pred |-> 4], [label |-> 4, pred |-> 4] >>

NlData ==
    << [label |-> 1, pred |-> <<1, 3>>, year |-> 2010],
       [label |-> 2, pred |-> <<2, 3>>, year |-> 2011],
       [label |-> 1, pred |-> <<1, 3>>, year |-> 2012],
       [label |-> 3, pred |-> <<2, 3>>, year |-> 2013] >>

XentData ==
    << [label |-> 0, logits |-> <<0, 1>>], [label |-> 1, logits |-> <<0, 1>>],
       [label |-> 1, logits |-> <<1, 0>>] >>

Min(a, b) == IF a <= b THEN a ELSE b

Batches(D) ==
    UNION { { SubSeq(D, i, j) : j \in i..Min(Len(D), i + MaxBatch - 1) } :
            i \in 1..Len(D) }

RegValues == { 0, One }

Labels(b) == [i \in 1..Len(b) |-> b[i].label]
Preds(b) == [i \in 1..Len(b) |-> b[i].pred]
Years(b) == [i \in 1..Len(b) |-> b[i].year]
Logits(b) == [i \in 1..Len(b) |-> b[i].logits]

----------------------------------------------------------------------------
(* The graph: the collections the calls read and write *)

Graph == [losses |-> losses, reg_losses |-> reg_losses, summaries |-> summaries]

None == <<>>
Some(x) == <<x>>

NoCall == [op |-> "none"]

----------------------------------------------------------------------------
(* tf.losses / tf.summary primitives *)

\* losses.compute_weighted_loss with weights = 1.0 and reduction
\* SUM_BY_NONZERO_WEIGHTS: the sum of the per-element losses divided by the
\* number of elements, added to GraphKeys.LOSSES
compute_weighted_loss(G, elems) ==
    LET loss == add_n(elems) \div Len(elems)
    IN  [graph |-> [G EXCEPT !.losses = Append(@, loss)], value |-> loss]

mean_squared_error(G, labels, predictions) ==
    compute_weighted_loss(G,
        [i \in 1..Len(labels) |->
            One * (predictions[i] - labels[i]) * (predictions[i] - labels[i])])

\* log(1 + exp(d)) in sixteenths, for a difference of logits d
Softplus16(d) ==
    CASE d = -2 -> 2
      [] d = -1 -> 5
      [] d = 0 -> 11
      [] d = 1 -> 21
      [] d = 2 -> 34

\* two-class softmax cross-entropy of one example:
\* log(exp(l0) + exp(l1)) - l_label = softplus(l_other - l_label)
sparse_softmax_cross_entropy(G, labels, logits) ==
    compute_weighted_loss(G,
        [i \in 1..Len(labels) |->
            (One \div 16) *
                Softplus16(logits[i][2 - labels[i]] - logits[i][labels[i] + 1])])

\* variant: add_regularization_losses left False
get_total_loss_noreg(G) == add_n(G.losses)

get_total_loss(G) == add_n(G.losses \o G.reg_losses)

\* variant: the total-loss query used where the regularization query belongs
get_regularization_loss_total(G) == add_n(G.losses \o G.reg_losses)

get_regularization_loss(G) ==
    IF G.reg_losses = <<>> THEN 0 ELSE add_n(G.reg_losses)

scalar(name, tensor) == [name |-> name, value |-> tensor]

----------------------------------------------------------------------------
(* models/loss_utils.py *)

\* variant: the threshold year itself still selects DMSP
nl_select_le(preds, years) ==
    [i \in 1..Len(years) |-> IF years[i] <= 2012 THEN preds[i][1] ELSE preds[i][2]]

\* tf.where(years < 2012, preds[:, 0], preds[:, 1])
nl_select(preds, years) ==
    [i \in 1..Len(years) |-> IF years[i] < 2012 THEN preds[i][1] ELSE preds[i][2]]

\* variant: the total is only queried on the summary path
loss_helper_flag(G, loss, loss_name, add_summaries) ==
    LET loss_reg == get_regularization_loss(G)
        loss_total == IF add_summaries THEN get_total_loss(G) ELSE loss + loss_reg
        records == << scalar("loss_total", loss_total),
                      scalar("loss_regularization_only", loss_reg),
                      scalar(loss_name, loss) >>
    IN  [graph |-> IF add_summaries
                      THEN [G EXCEPT !.summaries = @ \o records]
                      ELSE G,
         loss_total |-> loss_total,
         loss_reg |-> loss_reg,
         loss_summaries |-> IF add_summaries THEN Some(records) ELSE None]

loss_helper(G, loss, loss_name, add_summaries) ==
    LET loss_total == get_total_loss(G)
        loss_reg == get_regularization_loss(G)
        records == << scalar("loss_total", loss_total),
                      scalar("loss_regularization_only", loss_reg),
                      scalar(loss_name, loss) >>
    IN  [graph |-> IF add_summaries
                      THEN [G EXCEPT !.summaries = @ \o records]
                      ELSE G,
         loss_total |-> loss_total,
         loss_reg |-> loss_reg,
         loss_summaries |-> IF add_summaries THEN Some(records) ELSE None]

\* what an entry point returns, with the graph it leaves and the predictions
\* tensor it handed to tf.losses (the local preds / logits)
Returned(h, task, used) ==
    [graph |-> h.graph, loss_total |-> h.loss_total, loss_task |-> task,
     loss_reg |-> h.loss_reg, loss_summaries |-> h.loss_summaries, used |-> used]

\* variant: the selection dropped, the DMSP column always used
loss_nl_col0(G, labels, preds, years, add_summaries) ==
    LET sel == [i \in 1..Len(years) |-> preds[i][1]]
        m == mean_squared_error(G, labels, sel)
    IN  Returned(loss_helper(m.graph, m.value, "loss_mse", add_summaries), m.value,
                 sel)

loss_nl(G, labels, preds, years, add_summaries) ==
    LET sel == nl_select(preds, years)
        m == mean_squared_error(G, labels, sel)
    IN  Returned(loss_helper(m.graph, m.value, "loss_mse", add_summaries), m.value,
                 sel)

loss_mse(G, labels, preds, add_summaries) ==
    LET m == mean_squared_error(G, labels, preds)
    IN  Returned(loss_helper(m.graph, m.value, "loss_mse", add_summaries), m.value,
                 preds)

\* variant: the summary name copied from loss_mse
loss_xent_name(G, labels, logits, add_summaries) ==
    LET x == sparse_softmax_cross_entropy(G, labels, logits)
    IN  Returned(loss_helper(x.graph, x.value, "loss_mse", add_summaries),
                 x.value, logits)

loss_xent(G, labels, logits, add_summaries) ==
    LET x == sparse_softmax_cross_entropy(G, labels, logits)
    IN  Returned(loss_helper(x.graph, x.value, "loss_cross_entropy", add_summaries),
                 x.value, logits)

\* the call named by a call record, evaluated against the graph G
Invoke(G, c) ==
    CASE c.op = "loss_nl" -> loss_nl(G, c.labels, c.preds, c.years, c.add_summaries)
      [] c.op = "loss_mse" -> loss_mse(G, c.labels, c.preds, c.add_summaries)
      [] c.op = "loss_xent" -> loss_xent(G, c.labels, c.preds, c.add_summaries)

----------------------------------------------------------------------------
(* State machine *)

Init ==
    /\ losses = <<>>
    /\ reg_losses = <<>>
    /\ summaries = <<>>
    /\ ret = NoCall
    /\ pre = [losses |-> <<>>, reg_losses |-> <<>>, summaries |-> <<>>]
    /\ hist = <<>>

\* a call returns: the graph is the one the call left, ret is what it returned
Return(c, r) ==
    /\ losses' = r.graph.losses
    /\ reg_losses' = r.graph.reg_losses
    /\ summaries' = r.graph.summaries
    /\ ret' = [op |-> c.op, labels |-> c.labels, preds |-> c.preds,
               years |-> c.years, add_summaries |-> c.add_summaries,
               loss_total |-> r.loss_total, loss_task |-> r.loss_task,
               loss_reg |-> r.loss_reg, loss_summaries |-> r.loss_summaries,
               used |-> r.used]
    /\ pre' = Graph
    /\ hist' = Append(hist, r.loss_task)

Call_loss_nl ==
    /\ Len(hist) < MaxCalls
    /\ \E b \in Batches(NlData), add_summaries \in BOOLEAN :
          LET c == [op |-> "loss_nl", labels |-> Labels(b), preds |-> Preds(b),
                    years |-> Years(b), add_summaries |-> add_summaries]
          IN  Return(c, loss_nl(Graph, c.labels, c.preds, c.years, add_summaries))

Call_loss_mse ==
    /\ Len(hist) < MaxCalls
    /\ \E b \in Batches(MseData), add_summaries \in BOOLEAN :
          LET c == [op |-> "loss_mse", labels |-> Labels(b), preds |-> Preds(b),
                    years |-> <<>>, add_summaries |-> add_summaries]
          IN  Return(c, loss_mse(Graph, c.labels, c.preds, add_summaries))

Call_loss_xent ==
    /\ Len(hist) < MaxCalls
    /\ \E b \in Batches(XentData), add_summaries \in BOOLEAN :
          LET c == [op |-> "loss_xent", labels |-> Labels(b), preds |-> Logits(b),
                    years |-> <<>>, add_summaries |-> add_summaries]
          IN  Return(c, loss_xent(Graph, c.labels, c.preds, add_summaries))

\* model construction (outside this module) adds a regularization loss
AddRegularizer ==
    /\ Len(reg_losses) < MaxReg
    /\ Len(hist) < MaxCalls
    /\ \E r \in RegValues : reg_losses' = Append(reg_losses, r)
    /\ UNCHANGED <<losses, summaries, ret, pre, hist>>

Next ==
    \/ Call_loss_nl
    \/ Call_loss_mse
    \/ Call_loss_xent
    \/ AddRegularizer

Spec == Init /\ [][Next]_vars

IsCall == Len(hist') = Len(hist) + 1

----------------------------------------------------------------------------
(* Properties *)

Called == ret.op # "none"

\* the call a return record answers
CallOf(r) ==
    [op |-> r.op, labels |-> r.labels, preds |-> r.preds, years |-> r.years,
     add_summaries |-> r.add_summaries]

Values(r) == <<r.loss_total, r.loss_task, r.loss_reg>>

AllBefore(years) == \A i \in 1..Len(years) : years[i] < 2012
AllFrom(years) == \A i \in 1..Len(years) : years[i] >= 2012
Column(preds, k) == [i \in 1..Len(preds) |-> preds[i][k]]

SquaredError(labels, preds) ==
    add_n([i \in 1..Len(labels) |-> (preds[i] - labels[i]) * (preds[i] - labels[i])])

\* C1: every call returns a total loss equal to the task loss plus the
\* regularization loss that same call returns.
C1_TotalIsTaskPlusReg ==
    Called => ret.loss_total = ret.loss_task + ret.loss_reg

\* C2: loss_nl selects per example: column 0 (DMSP) where the year is below
\* 2012, column 1 (VIIRS) where it is 2012 or later, independently per index.
C2_PerExampleSelection ==
    ret.op = "loss_nl" =>
        /\ Len(ret.used) = Len(ret.years)
        /\ \A i \in 1..Len(ret.years) :
              /\ ret.years[i] < 2012 => ret.used[i] = ret.preds[i][1]
              /\ ret.years[i] >= 2012 => ret.used[i] = ret.preds[i][2]

C2_Witness ==
    /\ ret.op = "loss_nl"
    /\ \E i, j, k \in 1..Len(ret.years) :
          /\ ret.years[i] < 2012
          /\ ret.years[j] = 2012
          /\ ret.years[k] > 2012
          /\ ret.preds[j][1] # ret.preds[j][2]

\* C3: from the same starting graph, loss_nl on a batch whose years are all
\* below 2012 returns the (total, task, regularization) values of loss_mse on
\* column 0, and on a batch whose years are all 2012 or later those of
\* loss_mse on column 1.
C3_NlEqualsMseOnColumn ==
    ret.op = "loss_nl" =>
        /\ AllBefore(ret.years) =>
              Values(ret) =
                  Values(loss_mse(pre, ret.labels, Column(ret.preds, 1),
                                  ret.add_summaries))
        /\ AllFrom(ret.years) =>
              Values(ret) =
                  Values(loss_mse(pre, ret.labels, Column(ret.preds, 2),
                                  ret.add_summaries))

C3_Witness ==
    /\ ret.op = "loss_nl"
    /\ AllFrom(ret.years)
    /\ Len(ret.years) >= 2
    /\ Len(hist) >= 2
    /\ ret.loss_task * Len(ret.labels) #
          One * SquaredError(ret.labels, Column(ret.preds, 1))

\* C4: whenever the regularization accumulator is empty or sums to zero, a
\* call returns regularization loss 0 and a total equal to its task loss.
C4_ZeroRegTotalIsTask ==
    (Called /\ add_n(pre.reg_losses) = 0) =>
        /\ ret.loss_reg = 0
        /\ ret.loss_total = ret.loss_task

\* C5: with the summary flag false the call returns no summary and emits no
\* scalar record; with it true the call returns a bundle of exactly three
\* scalar records: loss_total, loss_regularization_only and the task name
\* (loss_mse for loss_nl and loss_mse, loss_cross_entropy for loss_xent).
TaskName(op) == IF op = "loss_xent" THEN "loss_cross_entropy" ELSE "loss_mse"

C6_RegReadOnly ==
    [][ IsCall =>
          /\ reg_losses' = reg_losses
          /\ ret'.loss_reg = add_n(reg_losses) ]_vars

C6_Witness ==
    /\ Called
    /\ Len(hist) = 2
    /\ ret.loss_reg > 0
    /\ ret.loss_task > 0
    /\ reg_losses # <<>>

\* C7: a call's (total, task, regularization) values depend only on its
\* arguments and the regularization value: they are the values the same call
\* returns in a run in which no loss call was made before.
FreshGraph == [losses |-> <<>>, reg_losses |-> pre.reg_losses, summaries |-> <<>>]

C7_Stateless ==
    Called => Values(ret) = Values(Invoke(FreshGraph, CallOf(ret)))

\* C8: the task loss of loss_mse and of loss_nl is the sum of squared
\* differences over the number of elements; labels [1,2,3], predictions
\* [1,2,4] and zero regularization give task loss 1/3 and total loss 1/3.
C8_MeanSquaredError ==
    /\ ret.op \in {"loss_mse", "loss_nl"} =>
          ret.loss_task * Len(ret.labels) = One * SquaredError(ret.labels, ret.used)
    /\ ret.op = "loss_mse" => ret.used = ret.preds
    /\ ( /\ ret.op = "loss_mse"
         /\ ret.labels = <<1, 2, 3>>
         /\ ret.preds = <<1, 2, 4>>
         /\ ret.loss_reg = 0 ) =>
          /\ 3 * ret.loss_task = One
          /\ 3 * ret.loss_total = One

Flipped(c) == [c EXCEPT !.add_summaries = ~ @]

C10_FlagOnlySummary ==
    Called =>
        LET alt == Invoke(pre, Flipped(CallOf(ret)))
        IN  /\ Values(alt) = Values(ret)
            /\ alt.graph.losses = losses
            /\ alt.graph.reg_losses = SubSeq(reg_losses, 1, Len(pre.reg_losses))

C10_Witness ==
    /\ Called
    /\ ~ ret.add_summaries
    /\ Len(hist) = 2
    /\ hist[1] > 0
    /\ reg_losses # <<>>

====
